---- MODULE Spec2Model ----
(***************************************************************************)
(* Model of the no-google blocklist tooling:                               *)
(*   - convert.py             the converter (parse, write, check, dispatch) *)
(*   - scripts/dnscheck.py    the DNS NS check that rewrites the source     *)
(*   - scripts/domain-check-api.py  the WHOIS check with a deferred retry   *)
(*   - scripts/tests.py       the strict duplicate check                    *)
(*                                                                          *)
(* Text is modelled as sequences of one-character strings, so that strip,   *)
(* lstrip, replace, lower and with_suffix are computed as Python computes   *)
(* them.  An optional value (Python's None) is <<>>, a present value v is   *)
(* <<v>>.                                                                   *)
(***************************************************************************)
EXTENDS Integers, Sequences, FiniteSets, TLC

VARIABLES
    \* ---- convert.py ----
    argv,          \* command line after the program name: <<>> or <<subcommand>>
    inputFile,     \* pihole-google.txt on disk: <<>> (missing) or <<lines>>
    pc,            \* position of the converter process
    lineNo,        \* number of source lines consumed by read()
    category,      \* read()'s local `category`: <<>> (None) or <<name>>
    data,          \* converter.data: sequence of [category, entries] (OrderedDict)
    timestamp,     \* converter.timestamp
    subcommands,   \* run()'s pending part of `subcommands`
    catNo,         \* categories(): index of the category being written
    files,         \* destination files on disk: set of [name, content]
    opened,        \* destination files opened for writing, in order
    failed,        \* <<>> or <<name>>: the destination whose writing failed
    invoked,       \* converter methods invoked by run(), in order
    stdout,        \* lines printed on standard output
    exitStatus,    \* <<>> while running, <<code>> after the process ended
    \* ---- scripts/dnscheck.py ----
    dnsPc,         \* position of dnscheck.py's main()
    dnsFile,       \* ../pihole-google.txt on disk: <<>> (missing) or <<lines>>
    dnsRead,       \* the lines main() has read so far, as they were on disk
    dnsOutcomes,   \* what the resolver did for each line read ("-": not asked)
    domains_with_ns_records, found_domains,
    \* ---- scripts/domain-check-api.py ----
    wPc,           \* position of domain-check-api.py's main()
    wFile,         \* ../pihole-google.txt on disk: <<>> (missing) or <<lines>>
    domains, retry_domains,
    wNo,           \* number of domains the current loop has handled
    lookups,       \* every call of is_registered: [domain, pass, outcome]
    wPrinted,      \* lines printed: [domain, result]
    \* ---- scripts/tests.py ----
    tPc,           \* position of check_duplicates
    tLineNo,       \* number of lines check_duplicates has read
    counts,        \* check_duplicates' `counts`: sequence of [domain, count] (dict)
    tRaised        \* <<>> or <<[domain, count]>>: the AssertionError raised

convVars == <<argv, inputFile, pc, lineNo, category, data, timestamp, subcommands,
              catNo, files, opened, failed, invoked, stdout, exitStatus>>
dnsVars == <<dnsPc, dnsFile, dnsRead, dnsOutcomes, domains_with_ns_records,
             found_domains>>
whoisVars == <<wPc, wFile, domains, retry_domains, wNo, lookups, wPrinted>>
testVars == <<tPc, tLineNo, counts, tRaised>>
vars == <<convVars, dnsVars, whoisVars, testVars>>

None == <<>>
Some(v) == <<v>>

(***************************************************************************)
(* Python string operations                                                *)
(***************************************************************************)
\* the characters str.strip() removes (those that occur in the inputs)
Whitespace == {" ", "\t", "\n"}

RECURSIVE lstripChars(_, _)
lstripChars(s, chars) ==
    IF s # <<>> /\ Head(s) \in chars THEN lstripChars(Tail(s), chars) ELSE s

RECURSIVE rstripChars(_, _)
rstripChars(s, chars) ==
    IF s # <<>> /\ s[Len(s)] \in chars
    THEN rstripChars(SubSeq(s, 1, Len(s) - 1), chars)
    ELSE s

strip(s) == rstripChars(lstripChars(s, Whitespace), Whitespace)

startswith(s, c) == s # <<>> /\ Head(s) = c

UpperCase == {"A", "B", "C", "D", "E", "F", "G", "H", "I", "J", "K", "L", "M",
              "N", "O", "P", "Q", "R", "S", "T", "U", "V", "W", "X", "Y", "Z"}
LowerOf == [c \in UpperCase |->
    CASE c = "A" -> "a" [] c = "B" -> "b" [] c = "C" -> "c" [] c = "D" -> "d"
      [] c = "E" -> "e" [] c = "F" -> "f" [] c = "G" -> "g" [] c = "H" -> "h"
      [] c = "I" -> "i" [] c = "J" -> "j" [] c = "K" -> "k" [] c = "L" -> "l"
      [] c = "M" -> "m" [] c = "N" -> "n" [] c = "O" -> "o" [] c = "P" -> "p"
      [] c = "Q" -> "q" [] c = "R" -> "r" [] c = "S" -> "s" [] c = "T" -> "t"
      [] c = "U" -> "u" [] c = "V" -> "v" [] c = "W" -> "w" [] c = "X" -> "x"
      [] c = "Y" -> "y" [] c = "Z" -> "z"]

lower(s) == [i \in 1..Len(s) |-> IF s[i] \in UpperCase THEN LowerOf[s[i]] ELSE s[i]]

IsNotSpace(c) == c # " "
\* s.replace(" ", "")
replaceSpaces(s) == SelectSeq(s, IsNotSpace)

(***************************************************************************)
(* Inputs                                                                  *)
(***************************************************************************)
MaxLines == 4

BlankLine == <<" ">>
HeaderA   == <<"#", " ", "A", " ", "&", "b", " ">>
HeaderG   == <<"#", "#", "G", ".", "c">>
DomainX   == <<" ", "x", ".", "y">>
DomainZ   == <<"z", ".", "w", "\t">>
RawLines  == {BlankLine, HeaderA, HeaderG, DomainX, DomainZ}

RECURSIVE SeqsUpTo(_, _)
SeqsUpTo(S, n) ==
    IF n = 0 THEN {<<>>}
    ELSE LET shorter == SeqsUpTo(S, n - 1)
         IN  shorter \cup {Append(s, x) : s \in {t \in shorter : Len(t) = n - 1}, x \in S}

SourceFiles == SeqsUpTo(RawLines, MaxLines)

\* a line as the file iterator yields it, with its terminator
FileLine(lines, i) == Append(lines[i], "\n")

Dates == {<<"2024-01-01">>, <<"2024-01-02">>}

(***************************************************************************)
(* convert.py: constants of DomainBlocklistConverter                       *)
(***************************************************************************)
PIHOLE_FILE == <<"google-domains">>
UNBOUND_FILE == <<"pihole-google-unbound.conf">>
ADGUARD_FILE == <<"pihole-google-adguard.txt">>
ADGUARD_IMPORTANT_FILE == <<"pihole-google-adguard-important.txt">>
CATEGORIES_PATH == <<"c", "a", "t", "e", "g", "o", "r", "i", "e", "s">>
BLOCKLIST_ABOUT == <<"This blocklist helps to restrict access to Google and its domains. Contribute at https://github.com/nickspaargaren/no-google">>

action_candidates == <<"pihole", "unbound", "adguard", "adguard_important", "categories">>
special_candidates == <<"all", "duplicates", "json">>
Range(s) == {s[i] : i \in 1..Len(s)}

\* command lines tried: none, every known subcommand, two unknown ones
CommandLines ==
    {<<>>} \cup {<<a>> : a \in Range(action_candidates \o special_candidates)}
           \cup {<<"bogus">>, <<"read">>}

(***************************************************************************)
(* convert.py: DomainBlocklistConverter.read                               *)
(***************************************************************************)
HasKey(d, c) == \E i \in 1..Len(d) : d[i].category = c
KeyIndex(d, c) == CHOOSE i \in 1..Len(d) : d[i].category = c

\* a repeated header that starts its category afresh: self.data[category] = []
setdefault_reset(d, c) ==
    IF HasKey(d, c) THEN [d EXCEPT ![KeyIndex(d, c)].entries = <<>>]
    ELSE Append(d, [category |-> c, entries |-> <<>>])

\* self.data.setdefault(category, [])
setdefault(d, c) ==
    IF HasKey(d, c) THEN d ELSE Append(d, [category |-> c, entries |-> <<>>])

\* self.data[category].append(line)
append_entry(d, c, line) ==
    [d EXCEPT ![KeyIndex(d, c)].entries = Append(@, line)]

\* line.lstrip("# ").strip()
category_of(line) == strip(lstripChars(line, {"#", " "}))

(***************************************************************************)
(* convert.py: _write_blocklist and the line formatters                    *)
(***************************************************************************)
\* the lambdas passed as line_formatter
line_formatter(fmt, entry) ==
    CASE fmt = "pihole" ->
            <<"0", ".", "0", ".", "0", ".", "0", " ">> \o entry \o <<"\n">>
      [] fmt = "unbound" ->
            <<"l", "o", "c", "a", "l", "-", "z", "o", "n", "e", ":", " ", "\"">>
            \o entry
            \o <<"\"", " ", "a", "l", "w", "a", "y", "s", "_", "r", "e", "f", "u", "s", "e", "\n">>
      [] fmt = "adguard" ->
            <<"|", "|">> \o entry \o <<"^", "\n">>
      [] fmt = "adguard_important" ->
            <<"|", "|">> \o entry
            \o <<"^", "$", "i", "m", "p", "o", "r", "t", "a", "n", "t", "\n">>
      [] fmt = "category_raw" ->
            <<"0", ".", "0", ".", "0", ".", "0", " ">> \o entry \o <<"\n">>
      [] fmt = "category_parsed" ->
            entry \o <<"\n">>

about_line == <<"#", " ">> \o BLOCKLIST_ABOUT \o <<"\n">>
updated_line(ts) ==
    <<"#", " ", "L", "a", "s", "t", " ", "u", "p", "d", "a", "t", "e", "d", ":", " ">>
    \o ts \o <<"\n">>
category_line(c) == <<"#", " ">> \o c \o <<"\n">>

\* for entry in entries: if entry: f.write(line_formatter(entry))
RECURSIVE entry_lines(_, _)
entry_lines(entries, fmt) ==
    IF entries = <<>> THEN <<>>
    ELSE (IF Head(entries) # <<>> THEN <<line_formatter(fmt, Head(entries))>> ELSE <<>>)
         \o entry_lines(Tail(entries), fmt)

\* the categories written last to first: reversed(self.data.items())
RECURSIVE category_blocks_reversed(_, _)
category_blocks_reversed(d, fmt) ==
    IF d = <<>> THEN <<>>
    ELSE category_blocks_reversed(Tail(d), fmt)
         \o <<category_line(Head(d).category)>>
         \o entry_lines(Head(d).entries, fmt)

\* for category, entries in self.data.items(): ...
RECURSIVE category_blocks(_, _)
category_blocks(d, fmt) ==
    IF d = <<>> THEN <<>>
    ELSE <<category_line(Head(d).category)>>
         \o entry_lines(Head(d).entries, fmt)
         \o category_blocks(Tail(d), fmt)

\* everything one successful _write_blocklist call writes, one element per f.write
blocklist_lines(d, ts, fmt) ==
    <<about_line, updated_line(ts)>> \o category_blocks(d, fmt)

PutFile(fs, name, content) ==
    {f \in fs : f.name # name} \cup {[name |-> name, content |-> content]}

\* the except clauses only log, and the caller goes on
write_error_continue(okPc) == okPc

\* sys.exit(1) in the except clauses of _write_blocklist
write_error_pc(okPc) == "done"

\* One call of _write_blocklist(filename, line_formatter).  open() may fail (the
\* destination is left alone), a write may fail after any number of completed
\* writes (the destination was truncated by open), or everything is written.
\* On success the caller goes on at okPc with okSub and okCat.
write_blocklist(filename, fmt, okPc, okSub, okCat) ==
    LET content == blocklist_lines(data, timestamp, fmt)
        fail == /\ failed' = Some(filename)
                /\ pc' = write_error_pc(okPc)
                /\ exitStatus' = IF pc' = "done" THEN Some(1) ELSE exitStatus
                /\ subcommands' = IF pc' = "done" THEN subcommands ELSE okSub
                /\ catNo' = IF pc' = "done" THEN catNo ELSE okCat
    IN  \/ /\ files' = PutFile(files, filename, content)
           /\ opened' = Append(opened, filename)
           /\ pc' = okPc
           /\ subcommands' = okSub
           /\ catNo' = okCat
           /\ UNCHANGED <<failed, exitStatus>>
        \/ /\ UNCHANGED <<files, opened>>
           /\ fail
        \/ \E k \in 0..(Len(content) - 1) :
              /\ files' = PutFile(files, filename, SubSeq(content, 1, k))
              /\ opened' = Append(opened, filename)
              /\ fail

(***************************************************************************)
(* convert.py: categories() file names                                     *)
(***************************************************************************)
\* category.replace(" ", "").lower()
category_filename(c) == lower(replaceSpaces(c))

\* Path(CATEGORIES_PATH).joinpath(filename), as str(): an empty filename adds
\* no component
joinpath(dir, filename) ==
    IF filename = <<>> THEN dir ELSE dir \o <<"/">> \o filename

Positions(s, c) == {i \in 1..Len(s) : s[i] = c}
Max(S) == CHOOSE m \in S : \A n \in S : n <= m
Min(S) == CHOOSE m \in S : \A n \in S : m <= n

\* PurePath.name: the last component of the path
path_name(p) ==
    IF Positions(p, "/") = {} THEN p
    ELSE SubSeq(p, Max(Positions(p, "/")) + 1, Len(p))

\* PurePath.suffix: from the last dot of the name, unless that dot is the
\* first or the last character of the name
path_suffix(p) ==
    LET name == path_name(p)
        dots == Positions(name, ".")
    IN  IF dots # {} /\ 1 < Max(dots) /\ Max(dots) < Len(name)
        THEN SubSeq(name, Max(dots), Len(name))
        ELSE <<>>

\* PurePath.with_suffix(suffix): the old suffix is replaced by the new one
with_suffix(p, suffix) ==
    SubSeq(p, 1, Len(p) - Len(path_suffix(p))) \o suffix

\* text_file = filepath.with_suffix(".txt")
text_file(c) ==
    with_suffix(joinpath(CATEGORIES_PATH, category_filename(c)), <<".", "t", "x", "t">>)

\* parsed_file = str(filepath) + "parsed"
parsed_file(c) ==
    joinpath(CATEGORIES_PATH, category_filename(c)) \o <<"p", "a", "r", "s", "e", "d">>

(***************************************************************************)
(* convert.py: duplicates()                                                *)
(***************************************************************************)
RECURSIVE all_entries(_)
all_entries(d) ==
    IF d = <<>> THEN <<>> ELSE Head(d).entries \o all_entries(Tail(d))

HashIndex(h, e) == CHOOSE i \in 1..Len(h) : h[i].entry = e

\* hashes[entry] += 1 on a defaultdict(int), which keeps first-insertion order
RECURSIVE count_entries(_, _)
count_entries(h, entries) ==
    IF entries = <<>> THEN h
    ELSE LET e == Head(entries)
             h1 == IF \E i \in 1..Len(h) : h[i].entry = e
                   THEN [h EXCEPT ![HashIndex(h, e)].count = @ + 1]
                   ELSE Append(h, [entry |-> e, count |-> 1])
         IN  count_entries(h1, Tail(entries))

\* only a third occurrence counts: if count > 2
is_duplicate_over_two(count) == count > 2

\* if count > 1
is_duplicate(count) == count > 1

Printed(kind, entry, count, doc) ==
    [kind |-> kind, entry |-> entry, count |-> count, doc |-> doc]

RECURSIVE duplicate_lines(_)
duplicate_lines(h) ==
    IF h = <<>> THEN <<>>
    ELSE (IF is_duplicate(Head(h).count)
          THEN <<Printed("duplicate", Head(h).entry, Head(h).count, <<>>)>>
          ELSE <<>>)
         \o duplicate_lines(Tail(h))

\* what duplicates() prints for the document d
duplicates_output(d) ==
    LET found == duplicate_lines(count_entries(<<>>, all_entries(d)))
    IN  IF found = <<>> THEN <<Printed("none", <<>>, 0, <<>>)>> ELSE found

(***************************************************************************)
(* convert.py: __main__, run() and the converter's methods as actions      *)
(***************************************************************************)
\* only the missing subcommand is refused: if subcommand is None
is_valid_subcommand_any(args) == args # <<>>

\* subcommand not in action_candidates + special_candidates
is_valid_subcommand(args) ==
    args # <<>> /\ args[1] \in Range(action_candidates \o special_candidates)

\* sys.exit() without the status: the process ends with status 0
Exit_status_dropped(code) ==
    /\ pc' = "done"
    /\ exitStatus' = Some(0)

\* sys.exit(code)
Exit(code) ==
    /\ pc' = "done"
    /\ exitStatus' = Some(code)

\* __main__ up to the call of run(), then run() up to the open() of read():
\* an unknown or missing subcommand exits 1 before anything else happens
Main ==
    /\ pc = "main"
    /\ IF ~is_valid_subcommand(argv)
       THEN /\ Exit(1)
            /\ UNCHANGED timestamp
       ELSE /\ \E d \in Dates : timestamp' = d
            /\ IF inputFile = None
               THEN Exit(1)
               ELSE pc' = "read" /\ UNCHANGED exitStatus
    /\ UNCHANGED <<argv, inputFile, lineNo, category, data, subcommands, catNo,
                   files, opened, failed, invoked, stdout>>

\* a domain line met while `category is None`: raise ValueError
missing_category(cat) == cat = None

\* one iteration of `for line in f` in read()
Read_Line ==
    /\ pc = "read"
    /\ lineNo < Len(inputFile[1])
    /\ lineNo' = lineNo + 1
    /\ LET line == strip(FileLine(inputFile[1], lineNo + 1))
       IN  IF startswith(line, "#")
           THEN /\ category' = Some(category_of(line))
                /\ data' = setdefault(data, category_of(line))
                /\ UNCHANGED <<pc, exitStatus>>
           ELSE IF line # <<>>
           THEN IF missing_category(category)
                THEN /\ Exit(1)
                     /\ UNCHANGED <<category, data>>
                ELSE /\ data' = append_entry(data, category[1], line)
                     /\ UNCHANGED <<category, pc, exitStatus>>
           ELSE UNCHANGED <<category, data, pc, exitStatus>>
    /\ UNCHANGED <<argv, inputFile, timestamp, subcommands, catNo, files, opened,
                   failed, invoked, stdout>>

\* reading the source fails part-way: except IOError: sys.exit(1)
Read_IOError ==
    /\ pc = "read"
    /\ lineNo < Len(inputFile[1])
    /\ Exit(1)
    /\ UNCHANGED <<argv, inputFile, lineNo, category, data, timestamp, subcommands,
                   catNo, files, opened, failed, invoked, stdout>>

\* read() has returned: run() dumps JSON and returns, or sets up `subcommands`
Run_Dispatch ==
    /\ pc = "read"
    /\ lineNo = Len(inputFile[1])
    /\ IF argv[1] = "json"
       THEN /\ stdout' = Append(stdout, Printed("json", <<>>, 0, data))
            /\ invoked' = Append(invoked, "dump")
            /\ Exit(0)
            /\ UNCHANGED subcommands
       ELSE /\ subcommands' = IF argv[1] = "all" THEN action_candidates ELSE <<argv[1]>>
            /\ pc' = "loop"
            /\ UNCHANGED <<stdout, invoked, exitStatus>>
    /\ UNCHANGED <<argv, inputFile, lineNo, category, data, timestamp, catNo, files,
                   opened, failed>>

\* the four single-file writers share this shape
Invoke_writer(name, filename) ==
    /\ pc = "loop"
    /\ subcommands # <<>>
    /\ Head(subcommands) = name
    /\ invoked' = Append(invoked, name)
    /\ write_blocklist(filename, name, "loop", Tail(subcommands), catNo)
    /\ UNCHANGED <<argv, inputFile, lineNo, category, data, timestamp, stdout>>

Invoke_pihole == Invoke_writer("pihole", PIHOLE_FILE)
Invoke_unbound == Invoke_writer("unbound", UNBOUND_FILE)
Invoke_adguard == Invoke_writer("adguard", ADGUARD_FILE)
Invoke_adguard_important == Invoke_writer("adguard_important", ADGUARD_IMPORTANT_FILE)

\* categories() up to its loop: mkdir may fail, and then the method returns
Invoke_categories ==
    /\ pc = "loop"
    /\ subcommands # <<>>
    /\ Head(subcommands) = "categories"
    /\ invoked' = Append(invoked, "categories")
    /\ \E mkdir_ok \in BOOLEAN :
          IF mkdir_ok /\ data # <<>>
          THEN /\ pc' = "categories_text"
               /\ catNo' = 1
               /\ UNCHANGED subcommands
          ELSE /\ subcommands' = Tail(subcommands)
               /\ UNCHANGED <<pc, catNo>>
    /\ UNCHANGED <<argv, inputFile, lineNo, category, data, timestamp, files, opened,
                   failed, stdout, exitStatus>>

\* self._write_blocklist(text_file, lambda entry: f"0.0.0.0 {entry}\n")
Categories_WriteText ==
    /\ pc = "categories_text"
    /\ write_blocklist(text_file(data[catNo].category), "category_raw",
                       "categories_parsed", subcommands, catNo)
    /\ UNCHANGED <<argv, inputFile, lineNo, category, data, timestamp, invoked, stdout>>

\* self._write_blocklist(parsed_file, lambda entry: f"{entry}\n"), then the
\* next category or the return of categories()
Categories_WriteParsed ==
    /\ pc = "categories_parsed"
    /\ IF catNo < Len(data)
       THEN write_blocklist(parsed_file(data[catNo].category), "category_parsed",
                            "categories_text", subcommands, catNo + 1)
       ELSE write_blocklist(parsed_file(data[catNo].category), "category_parsed",
                            "loop", Tail(subcommands), catNo)
    /\ UNCHANGED <<argv, inputFile, lineNo, category, data, timestamp, invoked, stdout>>

Invoke_duplicates ==
    /\ pc = "loop"
    /\ subcommands # <<>>
    /\ Head(subcommands) = "duplicates"
    /\ invoked' = Append(invoked, "duplicates")
    /\ stdout' = stdout \o duplicates_output(data)
    /\ subcommands' = Tail(subcommands)
    /\ UNCHANGED <<argv, inputFile, pc, lineNo, category, data, timestamp, catNo,
                   files, opened, failed, exitStatus>>

\* the loop of run() is over: the process ends with status 0
Run_Return ==
    /\ pc = "loop"
    /\ subcommands = <<>>
    /\ Exit(0)
    /\ UNCHANGED <<argv, inputFile, lineNo, category, data, timestamp, subcommands,
                   catNo, files, opened, failed, invoked, stdout>>

DnsIdle ==
    /\ dnsPc = "idle" /\ dnsFile = <<>> /\ dnsRead = <<>> /\ dnsOutcomes = <<>>
    /\ domains_with_ns_records = <<>> /\ found_domains = 0

WhoisIdle ==
    /\ wPc = "idle" /\ wFile = <<>> /\ domains = <<>> /\ retry_domains = <<>>
    /\ wNo = 0 /\ lookups = <<>> /\ wPrinted = <<>>

TestsIdle ==
    /\ tPc = "idle" /\ tLineNo = 0 /\ counts = <<>> /\ tRaised = None

ConvIdle ==
    /\ argv = <<>> /\ inputFile = None /\ pc = "idle" /\ lineNo = 0
    /\ category = None /\ data = <<>> /\ timestamp = None /\ subcommands = <<>>
    /\ catNo = 0 /\ files = {} /\ opened = <<>> /\ failed = None
    /\ invoked = <<>> /\ stdout = <<>> /\ exitStatus = None

Init ==
    /\ argv \in CommandLines
    /\ inputFile \in {None} \cup {Some(f) : f \in SourceFiles}
    /\ pc = "main"
    /\ lineNo = 0
    /\ category = None
    /\ data = <<>>
    /\ timestamp = None
    /\ subcommands = <<>>
    /\ catNo = 0
    /\ files = {}
    /\ opened = <<>>
    /\ failed = None
    /\ invoked = <<>>
    /\ stdout = <<>>
    /\ exitStatus = None
    /\ DnsIdle
    /\ WhoisIdle
    /\ TestsIdle

Next ==
    \/ (Main /\ UNCHANGED <<dnsVars, whoisVars, testVars>>)
    \/ (Read_Line /\ UNCHANGED <<dnsVars, whoisVars, testVars>>)
    \/ (Read_IOError /\ UNCHANGED <<dnsVars, whoisVars, testVars>>)
    \/ (Run_Dispatch /\ UNCHANGED <<dnsVars, whoisVars, testVars>>)
    \/ (Invoke_pihole /\ UNCHANGED <<dnsVars, whoisVars, testVars>>)
    \/ (Invoke_unbound /\ UNCHANGED <<dnsVars, whoisVars, testVars>>)
    \/ (Invoke_adguard /\ UNCHANGED <<dnsVars, whoisVars, testVars>>)
    \/ (Invoke_adguard_important /\ UNCHANGED <<dnsVars, whoisVars, testVars>>)
    \/ (Invoke_categories /\ UNCHANGED <<dnsVars, whoisVars, testVars>>)
    \/ (Categories_WriteText /\ UNCHANGED <<dnsVars, whoisVars, testVars>>)
    \/ (Categories_WriteParsed /\ UNCHANGED <<dnsVars, whoisVars, testVars>>)
    \/ (Invoke_duplicates /\ UNCHANGED <<dnsVars, whoisVars, testVars>>)
    \/ (Run_Return /\ UNCHANGED <<dnsVars, whoisVars, testVars>>)

Spec == Init /\ [][Next]_vars

(***************************************************************************)
(* scripts/dnscheck.py                                                     *)
(***************************************************************************)
MaxDnsLines == 3

DnsRawLines == {BlankLine, HeaderA, DomainX, DomainZ}
DnsSourceFiles == SeqsUpTo(DnsRawLines, MaxDnsLines)

\* what resolver.resolve(domain, "NS") can do: return an answer, or raise
ResolverOutcomes ==
    {"answer", "NXDOMAIN", "NoNameservers", "NoAnswer", "Timeout", "DNSException",
     "Exception"}

\* NoAnswer is taken for a missing domain as well
check_domain_noanswer_removes(outcome) == outcome \in {"NXDOMAIN", "NoAnswer"}

\* check_domain: True if the domain does not have NS records
check_domain(outcome) ==
    CASE outcome = "answer" -> FALSE
      [] outcome = "NXDOMAIN" -> TRUE
      [] outcome = "NoNameservers" -> FALSE
      [] outcome = "NoAnswer" -> FALSE
      [] outcome = "Timeout" -> FALSE
      [] outcome = "DNSException" -> FALSE
      [] OTHER -> FALSE

\* the lines of a file that holds the chunks written, each ending in "\n"
LinesWritten(chunks) ==
    [i \in 1..Len(chunks) |-> SubSeq(chunks[i], 1, Len(chunks[i]) - 1)]

\* main() up to the first iteration: a missing input file ends the run
Dns_Open ==
    /\ dnsPc = "start"
    /\ dnsPc' = IF dnsFile = None THEN "aborted" ELSE "scan"
    /\ UNCHANGED <<dnsFile, dnsRead, dnsOutcomes, domains_with_ns_records, found_domains>>

\* one iteration of `for line in f`
Dns_Line ==
    /\ dnsPc = "scan"
    /\ Len(dnsRead) < Len(dnsFile[1])
    /\ LET raw == dnsFile[1][Len(dnsRead) + 1]
           line == strip(Append(raw, "\n"))
       IN  /\ dnsRead' = Append(dnsRead, raw)
           /\ IF line # <<>> /\ ~startswith(line, "#")
              THEN \E outcome \in ResolverOutcomes :
                      /\ dnsOutcomes' = Append(dnsOutcomes, outcome)
                      /\ IF check_domain(outcome)
                         THEN /\ found_domains' = found_domains + 1
                              /\ UNCHANGED domains_with_ns_records
                         ELSE /\ domains_with_ns_records' =
                                    Append(domains_with_ns_records, Append(line, "\n"))
                              /\ UNCHANGED found_domains
              ELSE /\ dnsOutcomes' = Append(dnsOutcomes, "-")
                   /\ domains_with_ns_records' =
                         Append(domains_with_ns_records, Append(line, "\n"))
                   /\ UNCHANGED found_domains
    /\ UNCHANGED <<dnsPc, dnsFile>>

\* reading fails part-way: except IOError: return, nothing is written back
Dns_ReadError ==
    /\ dnsPc = "scan"
    /\ Len(dnsRead) < Len(dnsFile[1])
    /\ dnsPc' = "aborted"
    /\ UNCHANGED <<dnsFile, dnsRead, dnsOutcomes, domains_with_ns_records, found_domains>>

\* the file is written back: open(input_file, "w") and f.writelines(...)
Dns_Rewrite ==
    /\ dnsPc = "scan"
    /\ Len(dnsRead) = Len(dnsFile[1])
    /\ dnsFile' = Some(LinesWritten(domains_with_ns_records))
    /\ dnsPc' = "rewritten"
    /\ UNCHANGED <<dnsRead, dnsOutcomes, domains_with_ns_records, found_domains>>

\* writing back fails: open() fails and the file is left alone, or the file
\* was truncated and holds only some of the lines
Dns_RewriteError ==
    /\ dnsPc = "scan"
    /\ Len(dnsRead) = Len(dnsFile[1])
    /\ \/ UNCHANGED dnsFile
       \/ \E k \in 0..(Len(domains_with_ns_records) - 1) :
             dnsFile' = Some(LinesWritten(SubSeq(domains_with_ns_records, 1, k)))
    /\ dnsPc' = "write_failed"
    /\ UNCHANGED <<dnsRead, dnsOutcomes, domains_with_ns_records, found_domains>>

InitDns ==
    /\ dnsPc = "start"
    /\ dnsFile \in {None} \cup {Some(f) : f \in DnsSourceFiles}
    /\ dnsRead = <<>>
    /\ dnsOutcomes = <<>>
    /\ domains_with_ns_records = <<>>
    /\ found_domains = 0
    /\ ConvIdle
    /\ WhoisIdle
    /\ TestsIdle

NextDns ==
    \/ (Dns_Open /\ UNCHANGED <<convVars, whoisVars, testVars>>)
    \/ (Dns_Line /\ UNCHANGED <<convVars, whoisVars, testVars>>)
    \/ (Dns_ReadError /\ UNCHANGED <<convVars, whoisVars, testVars>>)
    \/ (Dns_Rewrite /\ UNCHANGED <<convVars, whoisVars, testVars>>)
    \/ (Dns_RewriteError /\ UNCHANGED <<convVars, whoisVars, testVars>>)

SpecDns == InitDns /\ [][NextDns]_vars

(***************************************************************************)
(* scripts/domain-check-api.py                                             *)
(***************************************************************************)
MaxWhoisLines == 3

WwwLine   == <<"w", "w", "w", ".", "a", ".", "b">>
SubLine   == <<"s", ".", "a", ".", "b", " ">>
PlainLine == <<"c", ".", "d">>
ColonLine == <<"e", ":", "f">>
WhoisRawLines == {HeaderA, WwwLine, SubLine, PlainLine, ColonLine}
WhoisSourceFiles == SeqsUpTo(WhoisRawLines, MaxWhoisLines)

\* (?:www\.)? in front of a name that goes on
strip_www(url) ==
    IF Len(url) > 4 /\ SubSeq(url, 1, 4) = <<"w", "w", "w", ".">>
    THEN SubSeq(url, 5, Len(url))
    ELSE url

\* get_domain on a line made of word characters, dots and dashes: the regular
\* expression captures the line without a leading "www.", and of more than two
\* dot-separated parts the last two are kept
get_domain(url) ==
    LET domain == strip_www(url)
        dots == Positions(domain, ".")
    IN  IF Cardinality(dots) >= 2
        THEN SubSeq(domain, Max(dots \ {Max(dots)}) + 1, Len(domain))
        ELSE domain

\* get_domains: the generator, as the list it yields
RECURSIVE get_domains(_)
get_domains(lines) ==
    IF lines = <<>> THEN <<>>
    ELSE LET line == strip(Append(Head(lines), "\n"))
         IN  (IF line # <<>> /\ ~startswith(line, "#") /\ Positions(line, ":") = {}
                 /\ get_domain(line) # <<>>
              THEN <<get_domain(line)>>
              ELSE <<>>)
             \o get_domains(Tail(lines))

\* the list is used as it is
remove_duplicates_identity(mylist) == mylist

\* list(dict.fromkeys(mylist)): the first occurrence of each entry, in order
RECURSIVE remove_duplicates(_)
remove_duplicates(mylist) ==
    IF mylist = <<>> THEN <<>>
    ELSE LET init == remove_duplicates(SubSeq(mylist, 1, Len(mylist) - 1))
             last == mylist[Len(mylist)]
         IN  IF last \in Range(init) THEN init ELSE Append(init, last)

\* what whois.whois(domain) can do: return a record with or without a
\* domain_name, or raise
WhoisOutcomes ==
    {"registered", "no_domain_name", "PywhoisError", "WhoisCommandFailed", "UnknownTld",
     "FailedParsingWhoisOutput", "UnknownDateFormat", "ConnectionRefusedError",
     "TimeoutError", "Exception"}

\* is_registered: "list" for the WHOIS details, "False", or "None" for a
\* temporary error
is_registered(outcome) ==
    CASE outcome = "registered" -> "list"
      [] outcome = "no_domain_name" -> "False"
      [] outcome = "PywhoisError" -> "False"
      [] outcome = "WhoisCommandFailed" -> "False"
      [] outcome = "UnknownTld" -> "False"
      [] outcome = "FailedParsingWhoisOutput" -> "False"
      [] outcome = "UnknownDateFormat" -> "False"
      [] outcome = "ConnectionRefusedError" -> "None"
      [] outcome = "TimeoutError" -> "None"
      [] OTHER -> "False"

Lookup(domain, pass, outcome) == [domain |-> domain, pass |-> pass, outcome |-> outcome]
Report(domain, result) == [domain |-> domain, result |-> result]

\* domains = remove_duplicates(list(get_domains())); a file that cannot be
\* opened yields no domain
Whois_Start ==
    /\ wPc = "start"
    /\ domains' = IF wFile = None THEN <<>> ELSE remove_duplicates(get_domains(wFile[1]))
    /\ wPc' = "first"
    /\ UNCHANGED <<wFile, retry_domains, wNo, lookups, wPrinted>>

\* one iteration of `for domain in domains`
Whois_FirstPass ==
    /\ wPc = "first"
    /\ wNo < Len(domains)
    /\ wNo' = wNo + 1
    /\ \E outcome \in WhoisOutcomes :
          LET domain == domains[wNo + 1]
              result == is_registered(outcome)
          IN  /\ lookups' = Append(lookups, Lookup(domain, 1, outcome))
              /\ IF result = "None"
                 THEN /\ retry_domains' = Append(retry_domains, domain)
                      /\ UNCHANGED wPrinted
                 ELSE /\ wPrinted' = Append(wPrinted, Report(domain, result))
                      /\ UNCHANGED retry_domains
    /\ UNCHANGED <<wPc, wFile, domains>>

\* the first loop is over: `if retry_domains:` starts the second loop, or
\* main() returns
Whois_EndFirstPass ==
    /\ wPc = "first"
    /\ wNo = Len(domains)
    /\ wPc' = IF retry_domains # <<>> THEN "retry" ELSE "done"
    /\ wNo' = 0
    /\ UNCHANGED <<wFile, domains, retry_domains, lookups, wPrinted>>

\* one iteration of `for domain in retry_domains`; after the last, main() returns
Whois_Retry ==
    /\ wPc = "retry"
    /\ wNo < Len(retry_domains)
    /\ wNo' = wNo + 1
    /\ \E outcome \in WhoisOutcomes :
          LET domain == retry_domains[wNo + 1]
          IN  /\ lookups' = Append(lookups, Lookup(domain, 2, outcome))
              /\ wPrinted' = Append(wPrinted, Report(domain, is_registered(outcome)))
    /\ wPc' = IF wNo' = Len(retry_domains) THEN "done" ELSE "retry"
    /\ UNCHANGED <<wFile, domains, retry_domains>>

InitWhois ==
    /\ wPc = "start"
    /\ wFile \in {None} \cup {Some(f) : f \in WhoisSourceFiles}
    /\ domains = <<>>
    /\ retry_domains = <<>>
    /\ wNo = 0
    /\ lookups = <<>>
    /\ wPrinted = <<>>
    /\ ConvIdle
    /\ DnsIdle
    /\ TestsIdle

NextWhois ==
    \/ (Whois_Start /\ UNCHANGED <<convVars, dnsVars, testVars>>)
    \/ (Whois_FirstPass /\ UNCHANGED <<convVars, dnsVars, testVars>>)
    \/ (Whois_EndFirstPass /\ UNCHANGED <<convVars, dnsVars, testVars>>)
    \/ (Whois_Retry /\ UNCHANGED <<convVars, dnsVars, testVars>>)

SpecWhois == InitWhois /\ [][NextWhois]_vars

(***************************************************************************)
(* scripts/tests.py: check_duplicates, run on the converter's source file  *)
(***************************************************************************)
CountIndex(c, domain) == CHOOSE i \in 1..Len(c) : c[i].domain = domain

\* if domain in counts: counts[domain] += 1  else: counts[domain] = 1
count_line(c, domain) ==
    IF \E i \in 1..Len(c) : c[i].domain = domain
    THEN [c EXCEPT ![CountIndex(c, domain)].count = @ + 1]
    ELSE Append(c, [domain |-> domain, count |-> 1])

\* for domain, count in counts.items(): if count > 1: the positions that raise
over_one(c) == {i \in 1..Len(c) : c[i].count > 1}

\* open(filepath, "r"): a missing file is logged and the error raised again
Check_Open ==
    /\ tPc = "start"
    /\ tPc' = IF inputFile = None THEN "error" ELSE "scan"
    /\ UNCHANGED <<tLineNo, counts, tRaised>>

\* one iteration of `for line in f`: every non-blank trimmed line is counted
Check_Line ==
    /\ tPc = "scan"
    /\ tLineNo < Len(inputFile[1])
    /\ tLineNo' = tLineNo + 1
    /\ LET domain == strip(FileLine(inputFile[1], tLineNo + 1))
       IN  counts' = IF domain # <<>> THEN count_line(counts, domain) ELSE counts
    /\ UNCHANGED <<tPc, tRaised>>

\* reading fails part-way: except IOError: raise
Check_ReadError ==
    /\ tPc = "scan"
    /\ tLineNo < Len(inputFile[1])
    /\ tPc' = "error"
    /\ UNCHANGED <<tLineNo, counts, tRaised>>

\* the loop over counts.items(): the first count above 1 raises AssertionError,
\* otherwise "No duplicate domains found." is logged
Check_Verdict ==
    /\ tPc = "scan"
    /\ tLineNo = Len(inputFile[1])
    /\ IF over_one(counts) # {}
       THEN /\ tRaised' = Some(counts[Min(over_one(counts))])
            /\ tPc' = "failed"
       ELSE /\ tPc' = "passed"
            /\ UNCHANGED tRaised
    /\ UNCHANGED <<tLineNo, counts>>

\* `convert.py duplicates` is run on a source file, then the strict check is
\* run on the same file
InitTests ==
    /\ argv = <<"duplicates">>
    /\ inputFile \in {None} \cup {Some(f) : f \in SourceFiles}
    /\ pc = "main"
    /\ lineNo = 0
    /\ category = None
    /\ data = <<>>
    /\ timestamp = None
    /\ subcommands = <<>>
    /\ catNo = 0
    /\ files = {}
    /\ opened = <<>>
    /\ failed = None
    /\ invoked = <<>>
    /\ stdout = <<>>
    /\ exitStatus = None
    /\ tPc = "start"
    /\ tLineNo = 0
    /\ counts = <<>>
    /\ tRaised = None
    /\ DnsIdle
    /\ WhoisIdle

NextTests ==
    \/ (Main /\ UNCHANGED <<dnsVars, whoisVars, testVars>>)
    \/ (Read_Line /\ UNCHANGED <<dnsVars, whoisVars, testVars>>)
    \/ (Run_Dispatch /\ UNCHANGED <<dnsVars, whoisVars, testVars>>)
    \/ (Invoke_duplicates /\ UNCHANGED <<dnsVars, whoisVars, testVars>>)
    \/ (Run_Return /\ UNCHANGED <<dnsVars, whoisVars, testVars>>)
    \/ (pc = "done" /\ Check_Open /\ UNCHANGED <<convVars, dnsVars, whoisVars>>)
    \/ (pc = "done" /\ Check_Line /\ UNCHANGED <<convVars, dnsVars, whoisVars>>)
    \/ (pc = "done" /\ Check_ReadError /\ UNCHANGED <<convVars, dnsVars, whoisVars>>)
    \/ (pc = "done" /\ Check_Verdict /\ UNCHANGED <<convVars, dnsVars, whoisVars>>)

SpecTests == InitTests /\ [][NextTests]_vars

(***************************************************************************)
(* The source file as the claims speak of it                               *)
(***************************************************************************)
SourceLines == inputFile[1]
TrimmedLines == [i \in 1..Len(SourceLines) |-> strip(FileLine(SourceLines, i))]
Trimmed(i) == TrimmedLines[i]
IsBlankLine(i) == Trimmed(i) = <<>>
IsHeaderLine(i) == Trimmed(i) # <<>> /\ Head(Trimmed(i)) = "#"
IsDomainLine(i) == Trimmed(i) # <<>> /\ Head(Trimmed(i)) # "#"
HeaderName(i) == category_of(Trimmed(i))

RECURSIVE Ascending(_)
Ascending(S) == IF S = {} THEN <<>> ELSE <<Min(S)>> \o Ascending(S \ {Min(S)})

\* the Document the first n source lines describe: the keys are the header
\* names in the order of their first header line, and under each key are the
\* trimmed domain lines whose most recent header line names it, in line order
ExpectedDocument(n) ==
    LET t == TrimmedLines
        headers == {i \in 1..n : t[i] # <<>> /\ Head(t[i]) = "#"}
        name == [i \in headers |-> category_of(t[i])]
        firstSeen == {i \in headers : \A j \in headers : j < i => name[j] # name[i]}
        domainLines == {i \in 1..n : t[i] # <<>> /\ Head(t[i]) # "#"}
        under == [i \in domainLines |->
                    LET before == {j \in headers : j < i}
                    IN  IF before = {} THEN None ELSE Some(name[Max(before)])]
        keys == Ascending(firstSeen)
    IN  [k \in 1..Len(keys) |->
            LET at == Ascending({i \in domainLines : under[i] = Some(name[keys[k]])})
            IN  [category |-> name[keys[k]],
                 entries |-> [m \in 1..Len(at) |-> t[at[m]]]]]

\* the source is well formed: no domain line comes before the first header
WellFormed ==
    \A i \in 1..Len(SourceLines) :
        IsDomainLine(i) => \E j \in 1..(i - 1) : IsHeaderLine(j)

\* the first non-blank line is a bare domain
FirstNonBlankIsBare ==
    LET t == TrimmedLines
        nonBlank == {i \in 1..Len(SourceLines) : t[i] # <<>>}
    IN  nonBlank # {} /\ Head(t[Min(nonBlank)]) # "#"

\* the parser has consumed lineNo lines without raising
ParsedSoFar == pc \in {"read", "loop", "categories_text", "categories_parsed"}
               \/ (pc = "done" /\ exitStatus = Some(0))
               \/ (pc = "done" /\ failed # None)

FileNamed(name) == CHOOSE f \in files : f.name = name
HasFile(name) == \E f \in files : f.name = name

\* the line each single-file format emits for a domain (section 4.2 of the spec)
EmittedLine(fmt, domain) ==
    CASE fmt = "pihole" ->
            <<"0", ".", "0", ".", "0", ".", "0", " ">> \o domain \o <<"\n">>
      [] fmt = "unbound" ->
            <<"l", "o", "c", "a", "l", "-", "z", "o", "n", "e", ":", " ", "\"">> \o domain
            \o <<"\"", " ", "a", "l", "w", "a", "y", "s", "_", "r", "e", "f", "u", "s", "e", "\n">>
      [] fmt = "adguard" -> <<"|", "|">> \o domain \o <<"^", "\n">>
      [] fmt = "adguard_important" ->
            <<"|", "|">> \o domain
            \o <<"^", "$", "i", "m", "p", "o", "r", "t", "a", "n", "t", "\n">>
      [] fmt = "category_raw" ->
            <<"0", ".", "0", ".", "0", ".", "0", " ">> \o domain \o <<"\n">>
      [] fmt = "category_parsed" -> domain \o <<"\n">>

\* marker line of category k of doc, then one emitted line per domain
ExpectedSection(doc, k, fmt) ==
    <<category_line(doc[k].category)>>
    \o [m \in 1..Len(doc[k].entries) |-> EmittedLine(fmt, doc[k].entries[m])]

RECURSIVE ExpectedSections(_, _, _)
ExpectedSections(doc, k, fmt) ==
    IF k > Len(doc) THEN <<>>
    ELSE ExpectedSection(doc, k, fmt) \o ExpectedSections(doc, k + 1, fmt)

ExpectedFile(doc, fmt) ==
    <<about_line, updated_line(timestamp)>> \o ExpectedSections(doc, 1, fmt)

SingleFileWriters ==
    {<<"pihole", PIHOLE_FILE>>, <<"unbound", UNBOUND_FILE>>, <<"adguard", ADGUARD_FILE>>,
     <<"adguard_important", ADGUARD_IMPORTANT_FILE>>}

\* C1: every file a single-file writer (pihole, unbound, adguard,
\* adguard_important) has written completely is the description line, the
\* "Last updated" line, then per category in first-seen order its marker and
\* one emitted line per domain of that category in source order.
C1_WrittenFileMatchesSource ==
    files # {} =>
        LET doc == ExpectedDocument(Len(SourceLines))
        IN  \A w \in SingleFileWriters :
                (HasFile(w[2]) /\ failed # Some(w[2])) =>
                    /\ WellFormed
                    /\ FileNamed(w[2]).content = ExpectedFile(doc, w[1])

\* all four files written under `all` from a source with two categories and a
\* domain under each
C1_Witness ==
    /\ argv = <<"all">>
    /\ failed = None
    /\ \A w \in SingleFileWriters : HasFile(w[2])
    /\ Len(data) = 2
    /\ \A k \in 1..2 : Len(data[k].entries) = 1
    /\ Len(FileNamed(PIHOLE_FILE).content) = 6

ValidCommandLine ==
    /\ argv # <<>>
    /\ argv[1] \in {"pihole", "unbound", "adguard", "adguard_important", "categories",
                    "all", "duplicates", "json"}

\* C2: for every valid subcommand, when the first non-blank source line is a
\* bare domain the run never gets past the parser: no destination is opened or
\* written, no action (writer, checker, dump) is invoked, nothing is printed,
\* and when the process has ended its exit status is 1.
C2_BareDomainFirstAborts ==
    (ValidCommandLine /\ inputFile # None /\ FirstNonBlankIsBare) =>
        /\ pc \in {"main", "read", "done"}
        /\ pc = "read" => lineNo < Len(SourceLines)
        /\ pc = "done" => exitStatus = Some(1)
        /\ opened = <<>>
        /\ files = {}
        /\ failed = None
        /\ invoked = <<>>
        /\ stdout = <<>>

\* the parser has met the bare domain after a blank line and the process ended
C2_Witness ==
    /\ argv = <<"all">>
    /\ inputFile # None
    /\ FirstNonBlankIsBare
    /\ lineNo = 2
    /\ pc = "done"
    /\ exitStatus = Some(1)

IsPrefix(s, t) == Len(s) <= Len(t) /\ s = SubSeq(t, 1, Len(s))
Last(s) == s[Len(s)]

\* the destinations an action may open
OpensOnly(action, name) ==
    CASE action = "pihole" -> name = PIHOLE_FILE
      [] action = "unbound" -> name = UNBOUND_FILE
      [] action = "adguard" -> name = ADGUARD_FILE
      [] action = "adguard_important" -> name = ADGUARD_IMPORTANT_FILE
      [] action = "categories" -> IsPrefix(CATEGORIES_PATH, name)
      [] OTHER -> FALSE

C3_State ==
    argv = <<"all">> =>
        /\ IsPrefix(invoked,
                    <<"pihole", "unbound", "adguard", "adguard_important", "categories">>)
        /\ \A i \in 1..Len(opened) : \E j \in 1..Len(invoked) : OpensOnly(invoked[j], opened[i])
        /\ failed # None =>
              /\ pc = "done"
              /\ exitStatus = Some(1)
              /\ invoked # <<>>
              /\ OpensOnly(Last(invoked), failed[1])
        /\ (pc = "done" /\ exitStatus = Some(0)) =>
              invoked = <<"pihole", "unbound", "adguard", "adguard_important", "categories">>

C3_Step ==
    argv = <<"all">> =>
        \* an action is invoked only when the one before has returned
        /\ invoked' # invoked => (pc = "loop" /\ invoked' = Append(invoked, Head(subcommands)))
        \* a destination is opened only by the action invoked last
        /\ opened' # opened =>
              /\ opened' = Append(opened, Last(opened'))
              /\ OpensOnly(Last(invoked'), Last(opened'))
        \* after a failed write nothing is invoked, opened or written
        /\ failed # None => UNCHANGED <<invoked, opened, files, exitStatus>>

\* C3: under `all` the actions are invoked in the order pihole, unbound,
\* adguard, adguard_important, categories, each at most once and one after the
\* other; when writing a destination fails the process exits with status 1 and
\* nothing later is invoked, opened or written.
C3_AllInOrderAndAbortOnWriteError == [](C3_State) /\ [][C3_Step]_vars

\* writing the third destination failed after two writers had completed
C3_Witness ==
    /\ argv = <<"all">>
    /\ failed = Some(ADGUARD_FILE)
    /\ invoked = <<"pihole", "unbound", "adguard">>
    /\ HasFile(PIHOLE_FILE) /\ HasFile(UNBOUND_FILE)
    /\ pc = "done"
    /\ exitStatus = Some(1)

\* C4: with no subcommand or an unknown one the process exits with status 1
\* and nothing executes: the source is not read, no action is invoked, no
\* destination is opened or written, nothing is printed.
C4_InvalidSubcommandExecutesNothing ==
    ~ValidCommandLine =>
        /\ pc \in {"main", "done"}
        /\ pc = "done" => exitStatus = Some(1)
        /\ lineNo = 0
        /\ category = None
        /\ data = <<>>
        /\ invoked = <<>>
        /\ opened = <<>>
        /\ files = {}
        /\ stdout = <<>>

\* an unknown subcommand was given, a readable source exists, the process ended
C4_Witness ==
    /\ argv = <<"bogus">>
    /\ inputFile # None
    /\ Len(SourceLines) > 0
    /\ pc = "done"
    /\ exitStatus = Some(1)

\* total number of occurrences of e in the Document, all categories combined
Occurrences(e) ==
    Cardinality({ij \in (1..Len(data)) \X (1..MaxLines + 1) :
                    /\ ij[2] <= Len(data[ij[1]].entries)
                    /\ data[ij[1]].entries[ij[2]] = e})
AllDomains == UNION {Range(data[i].entries) : i \in 1..Len(data)}
Repeated == {e \in AllDomains : Occurrences(e) > 1}

\* C5: after the duplicates action, standard output holds one line for exactly
\* the domains that occur more than once in the whole Document, each with its
\* total count, and the "no duplicates" line if and only if there is none; the
\* process has not exited with an error and the Document is the parsed one.
C5_DuplicatesReport ==
    (argv = <<"duplicates">> /\ invoked = <<"duplicates">>) =>
        /\ \A e \in Repeated :
              \E k \in 1..Len(stdout) :
                 /\ stdout[k] = Printed("duplicate", e, Occurrences(e), <<>>)
                 /\ \A m \in 1..Len(stdout) : stdout[m].entry = e => m = k
        /\ \A k \in 1..Len(stdout) :
              \/ stdout[k].kind = "duplicate" /\ stdout[k].entry \in Repeated
              \/ stdout[k] = Printed("none", <<>>, 0, <<>>) /\ Repeated = {}
        /\ Repeated = {} => Len(stdout) = 1
        /\ pc \in {"loop", "done"}
        /\ exitStatus \in {None, Some(0)}
        /\ failed = None
        /\ data = ExpectedDocument(Len(SourceLines))

\* one domain under two different categories is reported with count 2
C5_Witness ==
    /\ argv = <<"duplicates">>
    /\ invoked = <<"duplicates">>
    /\ Len(data) = 2
    /\ data[1].entries = data[2].entries
    /\ Len(data[1].entries) = 1
    /\ stdout = <<Printed("duplicate", data[1].entries[1], 2, <<>>)>>
    /\ pc = "done"

\* the slug of a category name: spaces removed, letters lower-cased, every
\* other character kept
Slug(c) ==
    LET kept == SelectSeq(c, IsNotSpace)
    IN  [i \in 1..Len(kept) |-> IF kept[i] \in UpperCase THEN LowerOf[kept[i]] ELSE kept[i]]

\* C6: the categories action opens, for the k-th category of the Document,
\* first categories/<slug>.txt and then categories/<slug>parsed.
C6_CategoryFileNames ==
    (argv = <<"categories">> /\ invoked = <<"categories">>) =>
        \A i \in 1..Len(opened) :
            LET c == data[(i + 1) \div 2].category
            IN  opened[i] =
                    CATEGORIES_PATH \o <<"/">> \o Slug(c)
                    \o (IF i % 2 = 1 THEN <<".", "t", "x", "t">>
                                     ELSE <<"p", "a", "r", "s", "e", "d">>)

\* C9 (state part): while the parser has not raised, the Document is the one
\* the consumed prefix describes (keys = distinct header names in first-seen
\* order, each domain trimmed and under its most recent header), and no stored
\* domain is empty or carries outer whitespace.
C9_State ==
    (inputFile # None /\ ParsedSoFar) =>
        /\ data = ExpectedDocument(lineNo)
        /\ \A k \in 1..Len(data) :
              /\ \A j \in 1..Len(data) : data[j].category = data[k].category => j = k
              /\ \A m \in 1..Len(data[k].entries) :
                    LET e == data[k].entries[m]
                    IN  /\ e # <<>>
                        /\ Head(e) \notin Whitespace
                        /\ Last(e) \notin Whitespace

\* C9 (step part): a header line whose name is already a key leaves the
\* Document as it is, and a domain line only appends to its category.
C9_Step ==
    (pc = "read" /\ lineNo' = lineNo + 1) =>
        /\ (IsHeaderLine(lineNo + 1) /\ HasKey(data, HeaderName(lineNo + 1))) =>
              (data' = data /\ pc' = "read")
        /\ (IsDomainLine(lineNo + 1) /\ pc' = "read") =>
              /\ Len(data') = Len(data)
              /\ \A k \in 1..Len(data) :
                    /\ data'[k].category = data[k].category
                    /\ IsPrefix(data[k].entries, data'[k].entries)

\* C9: the Document invariant of the parser over every consumed prefix, with
\* repeated headers re-opening their key without clearing it.
C9_ParserInvariant == [](C9_State) /\ [][C9_Step]_vars

\* a header, a domain, the same header again, another domain: both domains
\* are under the one key, in source order
C9_Witness ==
    /\ pc = "read"
    /\ lineNo = 4
    /\ IsHeaderLine(1) /\ IsDomainLine(2) /\ IsHeaderLine(3) /\ IsDomainLine(4)
    /\ HeaderName(1) = HeaderName(3)
    /\ Len(data) = 1
    /\ data[1].entries = <<Trimmed(2), Trimmed(4)>>
    /\ Trimmed(2) # Trimmed(4)

\* C10: each per-category file the categories action has written completely
\* for the k-th category holds, after the two header lines, the marker of that
\* category and one line per domain of that category, and nothing else.
C10_PerCategoryFileHoldsOnlyItsCategory ==
    (argv = <<"categories">> /\ invoked = <<"categories">>) =>
        \A i \in 1..Len(opened) :
            (failed # Some(opened[i]) /\ HasFile(opened[i])) =>
                FileNamed(opened[i]).content =
                    <<about_line, updated_line(timestamp)>>
                    \o ExpectedSection(data, (i + 1) \div 2,
                                       IF i % 2 = 1 THEN "category_raw" ELSE "category_parsed")

DnsTrimmed(i) == strip(Append(dnsRead[i], "\n"))
DnsIsDomainLine(i) == DnsTrimmed(i) # <<>> /\ Head(DnsTrimmed(i)) # "#"
\* the lines read so far that were not answered NXDOMAIN
DnsRetained == {i \in 1..Len(dnsRead) : ~(DnsIsDomainLine(i) /\ dnsOutcomes[i] = "NXDOMAIN")}
DnsExpectedLines ==
    LET at == Ascending(DnsRetained)
    IN  [m \in 1..Len(at) |-> DnsTrimmed(at[m])]

\* C7: the lines kept by the NS check are the trimmed lines read, in order,
\* without exactly the domain lines the resolver answered NXDOMAIN (comments,
\* blank lines and every other resolver outcome are kept), and the file written
\* back holds just these lines.
C7_OnlyNxdomainRemoved ==
    dnsPc \in {"scan", "rewritten", "write_failed", "aborted"} =>
        /\ Len(dnsOutcomes) = Len(dnsRead)
        /\ domains_with_ns_records =
              [m \in 1..Len(DnsExpectedLines) |-> Append(DnsExpectedLines[m], "\n")]
        /\ found_domains = Len(dnsRead) - Cardinality(DnsRetained)
        /\ dnsPc = "rewritten" => dnsFile = Some(DnsExpectedLines)

\* a header, a domain answered NXDOMAIN and a domain that timed out: the file
\* written back has the header and the second domain
C7_Witness ==
    /\ dnsPc = "rewritten"
    /\ Len(dnsRead) = 3
    /\ ~DnsIsDomainLine(1)
    /\ dnsOutcomes = <<"-", "NXDOMAIN", "Timeout">>
    /\ dnsFile = Some(<<DnsTrimmed(1), DnsTrimmed(3)>>)

LookupsOf(d) == {i \in 1..Len(lookups) : lookups[i].domain = d}
TransientFailures == {"ConnectionRefusedError", "TimeoutError"}
\* how a lookup is reported
ReportedAs(outcome) ==
    IF outcome = "registered" THEN "list"
    ELSE IF outcome \in TransientFailures THEN "None"
    ELSE "False"
IsReported(i) == ~(lookups[i].pass = 1 /\ lookups[i].outcome \in TransientFailures)
ExpectedReports ==
    LET at == Ascending({i \in 1..Len(lookups) : IsReported(i)})
    IN  [m \in 1..Len(at) |-> Report(lookups[at[m]].domain, ReportedAs(lookups[at[m]].outcome))]

\* C8: a domain is looked up a second time exactly when its first lookup was a
\* transient failure, the second lookup comes after the first pass over all
\* domains, no domain is looked up more than twice, and every lookup that is
\* not a deferred transient failure is reported (a non-transient failure as
\* not registered).
C8_SingleDeferredRetry ==
    wPc \in {"first", "retry", "done"} =>
        /\ \A i \in 1..Len(lookups) : lookups[i].domain \in Range(domains)
        /\ \A d \in Range(domains) :
              LET of == LookupsOf(d)
              IN  /\ Cardinality(of) <= 2
                  /\ Cardinality(of) = 2 =>
                        /\ lookups[Min(of)].pass = 1
                        /\ lookups[Min(of)].outcome \in TransientFailures
                        /\ lookups[Max(of)].pass = 2
                  /\ wPc = "done" =>
                        /\ of # {}
                        /\ Cardinality(of) =
                              IF lookups[Min(of)].outcome \in TransientFailures THEN 2 ELSE 1
        /\ \A i \in 1..Len(lookups) :
              lookups[i].pass = 2 =>
                  Cardinality({j \in 1..(i - 1) : lookups[j].pass = 1}) = Len(domains)
        /\ wPrinted = ExpectedReports

\* two domains: the first fails transiently twice, the second fails for good
\* in between
C8_Witness ==
    /\ wPc = "done"
    /\ Len(domains) = 2
    /\ lookups = <<Lookup(domains[1], 1, "TimeoutError"),
                   Lookup(domains[2], 1, "UnknownTld"),
                   Lookup(domains[1], 2, "ConnectionRefusedError")>>
    /\ wPrinted = <<Report(domains[2], "False"), Report(domains[1], "None")>>

\* the converter accepted the source and its duplicates action has reported
ConverterReported ==
    /\ pc = "done"
    /\ exitStatus = Some(0)
    /\ invoked = <<"duplicates">>
ConverterFoundDuplicate == \E k \in 1..Len(stdout) : stdout[k].kind = "duplicate"

\* C11: on a source file the parser accepts, the strict check ends in an
\* AssertionError if and only if the converter's duplicates action reports at
\* least one duplicated domain.
C11_StrictCheckAgreesWithReport ==
    (ConverterReported /\ tPc \in {"passed", "failed"}) =>
        ((tPc = "failed") <=> ConverterFoundDuplicate)

====
